---- MODULE Spec2Model ----
(***************************************************************************)
(* Model of the optimistic task store of the kanban tracker                *)
(* (src/src/context/TaskContext.tsx) with the date helper it derives the   *)
(* past-due status from (src/src/utils/date.ts).                           *)
(*                                                                         *)
(* One action per handler step: the synchronous part of a mutation up to   *)
(* its `await` (snapshot, optimistic setTasks, building the remote write), *)
(* and the part after the `await` (confirmation or catch/rollback).  The   *)
(* remote store answers every row of a write with "ok", with an error      *)
(* object ("error", the promise resolves) or by rejecting ("throw").       *)
(***************************************************************************)
EXTENDS Integers, Sequences, FiniteSets, Bags, TLC

VARIABLES
    tasks,      \* useState<Task[]>: the in-memory list
    isLoading,  \* useState(true)
    error,      \* useState<string | null>
    db,         \* the remote `tasks` table, a sequence of rows
    loads,      \* bag of fetchTasks queries in flight (the rows each one read)
    notes,      \* postgres_changes notifications not yet delivered
    pending,    \* mutations suspended at their await
    now,        \* number of mutation calls so far; the source of timestamps
    wallClock,  \* new Date() as isPastDue sees it
    results,    \* per call, in call order: how its promise settled
    modal,      \* the task modal: UIContext taskModal, TaskModal isSaving, toasts
    filters,    \* FilterContext filters
    view,       \* what the last call of a derived view returned
    auth,       \* AuthContext: its state, initAttemptRef and the async runs in flight
    storage     \* localStorage item of the filters, and the storage events on their way

vars == <<tasks, isLoading, error, db, loads, notes, pending, now, wallClock, results,
          modal, filters, view, auth, storage>>

\* the state outside the task store
UI == <<modal, filters, view, auth, storage>>

-----------------------------------------------------------------------------
(* Bounds *)

NumTasks == 2      \* rows in the remote table when the session starts
MaxOps == 2        \* mutations issued in one run
MaxDay == 2        \* calendar days 0..MaxDay
MaxLoads == 1      \* fetchTasks queries in flight at a time
MaxLen == 3        \* entries of the lists a single call is applied to
MaxShown == 2      \* entries of the lists the filter is applied to

-----------------------------------------------------------------------------
(* Values *)

Statuses == {"planning", "in-progress", "completed", "past-due"}
DbTaskStatus == {"planning", "in-progress", "completed"}

NoDate == [kind |-> "null"]
BadDate == [kind |-> "invalid"]
DateAt(d, t) == [kind |-> "date", day |-> d, tod |-> t]

NoError == "null"

\* FilterState with no constraint
NoAssignee == "null"
NoFilters == [assigneeId |-> NoAssignee, categories |-> <<>>, statuses |-> <<>>,
              searchQuery |-> <<>>]

NoView == [kind |-> "none"]

NoUser == "null"

\* AuthContext as the task store sees it: TaskProvider is rendered for a
\* signed-in user once loading has ended
SignedIn == [isLoading |-> FALSE, user |-> "u1", teamMember |-> "m1",
             authError |-> NoError, initAttemptRef |-> 1, runs |-> {}, events |-> 0]

\* localStorage.getItem: null, or the string written
NoItem == [kind |-> "null"]

\* JSON.stringify of a filter state; JSON.parse gives the value back
stringify(value) == [kind |-> "json", value |-> value]

\* a string that JSON.parse rejects
Corrupted == [kind |-> "corrupted"]

\* no filter operation made yet
NoWrite == [op |-> "none", arg |-> "none", success |-> TRUE]

\* the item as this tab left it, no storage event on its way; foreign: another
\* tab has written the item; writes, last: the filter operations made so far
Stored(item) == [item |-> item, events |-> <<>>, foreign |-> FALSE,
                 writes |-> 0, last |-> NoWrite]

-----------------------------------------------------------------------------
(* src/src/utils/date.ts *)

safeParseISO(dateString) ==
    IF dateString.kind = "date" THEN dateString ELSE NoDate

startOfDay(date) == [date EXCEPT !.tod = 0]

isBefore(a, b) == a.day < b.day \/ (a.day = b.day /\ a.tod < b.tod)

isPastDueNoStartOfDay(dueDate, clock) ==
    IF dueDate.kind = "null" THEN FALSE
    ELSE LET parsed == safeParseISO(dueDate) IN
         IF parsed.kind = "null" THEN FALSE
         ELSE isBefore(parsed, clock)

isPastDue(dueDate, clock) ==
    IF dueDate.kind = "null" THEN FALSE
    ELSE LET parsed == safeParseISO(dueDate) IN
         IF parsed.kind = "null" THEN FALSE
         ELSE isBefore(startOfDay(parsed), startOfDay(clock))

getEffectiveStatus(task, clock) ==
    IF task.status # "completed" /\ isPastDue(task.dueDate, clock)
    THEN "past-due"
    ELSE task.status

-----------------------------------------------------------------------------
(* Array helpers *)

Has(s, id) == \E i \in 1..Len(s) : s[i].id = id

\* Array.prototype.find: the first entry with the id
Find(s, id) == s[CHOOSE i \in 1..Len(s) :
                     s[i].id = id /\ \A j \in 1..(i - 1) : s[j].id # id]

Min(a, b) == IF a < b THEN a ELSE b

\* Array.prototype.slice(from, to) with 0-based bounds, clamped to the array
Slice(s, from, to) == SubSeq(s, Min(from, Len(s)) + 1, Min(to, Len(s)))

RECURSIVE InsertByOrder(_, _)
InsertByOrder(sorted, t) ==
    IF sorted = <<>> THEN <<t>>
    ELSE IF t.order < Head(sorted).order THEN <<t>> \o sorted
    ELSE <<Head(sorted)>> \o InsertByOrder(Tail(sorted), t)

\* Array.prototype.sort((a, b) => a.order - b.order): stable
RECURSIVE SortByOrder(_)
SortByOrder(s) ==
    IF s = <<>> THEN <<>>
    ELSE InsertByOrder(SortByOrder(SubSeq(s, 1, Len(s) - 1)), s[Len(s)])

Renumber(s) == [i \in 1..Len(s) |-> [s[i] EXCEPT !.order = i - 1]]

Partition(ts, status, clock) ==
    SelectSeq(ts, LAMBDA t : getEffectiveStatus(t, clock) = status)

\* lines 419-421 without the sort
getTasksByStatusUnsorted(ts, status, clock) == Partition(ts, status, clock)

\* lines 417-424
getTasksByStatus(ts, status, clock) == SortByOrder(Partition(ts, status, clock))

-----------------------------------------------------------------------------
(* Normalization: TaskContext.tsx dbToTask, taskToDbInsert *)

dbToTask(row) ==
    [id |-> row.id, title |-> row.title, status |-> row.status,
     dueDate |-> row.due_date, updatedAt |-> row.updated_at, order |-> row.order]

taskToDbInsert(task) ==
    LET dbStatus == IF task.status = "past-due" THEN "planning" ELSE task.status
    IN [title |-> task.title, status |-> dbStatus, due_date |-> task.dueDate]

-----------------------------------------------------------------------------
(* The remote table.  The status column is the three-valued enum           *)
(* task_status, so a row write carrying any other status is refused.       *)

Replies == {"ok", "error", "throw"}

Storable(data) == ("status" \in DOMAIN data) => data.status \in DbTaskStatus

\* the answers the store can give to one row write
RowReplies(w) == IF Storable(w.data) THEN Replies ELSE Replies \ {"ok"}

\* insert(record): the server assigns the id; `order` is not part of the
\* record sent, so the column default applies
serverInsert(table, newId, record) ==
    Append(table, [id |-> newId, title |-> record.title, status |-> record.status,
                   due_date |-> record.due_date, updated_at |-> 0, order |-> 0])

\* update(partial).eq('id', id): only the fields present are written
serverUpdate(table, id, data) ==
    [i \in 1..Len(table) |->
        IF table[i].id = id
        THEN [f \in DOMAIN table[i] |->
                 IF f \in DOMAIN data THEN data[f] ELSE table[i][f]]
        ELSE table[i]]

serverDelete(table, id) == SelectSeq(table, LAMBDA r : r.id # id)

\* writes ws[k] with replies[k] = "ok" applied in turn
RECURSIVE serverUpdateAll(_, _, _)
serverUpdateAll(table, ws, replies) ==
    IF ws = <<>> THEN table
    ELSE serverUpdateAll(
             IF Head(replies) = "ok"
             THEN serverUpdate(table, Head(ws).id, Head(ws).data) ELSE table,
             Tail(ws), Tail(replies))

\* rows changed by the batch: one change notification each
Committed(table, ws, replies) ==
    Cardinality({k \in 1..Len(ws) : replies[k] = "ok" /\ Has(table, ws[k].id)})

\* select('*').order('order')
serverQuery(table) == SortByOrder(table)

-----------------------------------------------------------------------------
(* The optimistic computations of the mutations *)

TempId(n) == 0 - n          \* nanoid(): an id no server row carries
ServerId(n) == NumTasks + n \* the id the server assigns to the n-th insert
UnknownId == NumTasks + MaxOps + 1  \* an id no entry ever carries
NoId == UnknownId + 1               \* taskId: null

\* UIContext: useState<TaskModalState>({ isOpen: false, taskId: null }), with
\* TaskModal's useState(false) for isSaving and the error toasts shown so far
\* awaiting: the handlers of the modal suspended at their await
ModalClosed == [isOpen |-> FALSE, taskId |-> NoId, isSaving |-> FALSE,
                toasts |-> <<>>, awaiting |-> {}]

MaxOrder(s) == CHOOSE m \in {s[i].order : i \in 1..Len(s)} :
                   \A i \in 1..Len(s) : s[i].order <= m

\* lines 128-143 with the number of tasks in the status as the new order
optimisticTaskByCount(ts, taskData, tempId, stamp, clock) ==
    [id |-> tempId, title |-> taskData.title, status |-> taskData.status,
     dueDate |-> taskData.dueDate, updatedAt |-> stamp,
     order |-> Len(Partition(ts, taskData.status, clock))]

\* addTask lines 128-143
optimisticTask(ts, taskData, tempId, stamp, clock) ==
    LET tasksInStatus == Partition(ts, taskData.status, clock)
        maxOrder == IF Len(tasksInStatus) > 0 THEN MaxOrder(tasksInStatus) ELSE 0 - 1
    IN [id |-> tempId, title |-> taskData.title, status |-> taskData.status,
        dueDate |-> taskData.dueDate, updatedAt |-> stamp, order |-> maxOrder + 1]

\* { ...task, ...updates, updatedAt: now }
Merge(task, updates, stamp) ==
    [f \in DOMAIN task |->
        IF f = "updatedAt" THEN stamp
        ELSE IF f \in DOMAIN updates THEN updates[f] ELSE task[f]]

\* updateTask lines 187-193
updateOptimistic(ts, id, updates, stamp) ==
    [i \in 1..Len(ts) |->
        IF ts[i].id = id THEN Merge(ts[i], updates, stamp) ELSE ts[i]]

\* updateTask lines 201-206: the status written for an update
updateDbStatus(updates, originalTask) ==
    IF updates.status = "past-due" THEN originalTask.status ELSE updates.status

\* updateTask lines 197-211
dbUpdates(updates, originalTask) ==
    LET wire == [title |-> "title", status |-> "status",
                 dueDate |-> "due_date", order |-> "order"]
        present == {wire[f] : f \in DOMAIN updates}
    IN [c \in present |->
          CASE c = "title" -> updates.title
            [] c = "status" -> updateDbStatus(updates, originalTask)
            [] c = "due_date" -> updates.dueDate
            [] c = "order" -> updates.order]

\* moveTask line 285
moveDbStatus(newStatus, taskToMove) ==
    IF newStatus = "past-due" THEN "planning" ELSE newStatus

\* lines 280-282 without the sort
tasksInNewStatusUnsorted(ts, id, newStatus, clock) ==
    SelectSeq(ts, LAMBDA t : t.id # id /\ getEffectiveStatus(t, clock) = newStatus)

\* moveTask lines 280-282
tasksInNewStatus(ts, id, newStatus, clock) ==
    SortByOrder(SelectSeq(ts, LAMBDA t :
        t.id # id /\ getEffectiveStatus(t, clock) = newStatus))

\* moveTask lines 288-292
moveUpdatedTasksInStatus(ts, id, newStatus, newOrder, stamp, clock) ==
    LET taskToMove == Find(ts, id)
        inNew == tasksInNewStatus(ts, id, newStatus, clock)
        moved == [taskToMove EXCEPT !.status = moveDbStatus(newStatus, taskToMove),
                                    !.updatedAt = stamp]
    IN Renumber(Slice(inNew, 0, newOrder) \o <<moved>>
                \o Slice(inNew, newOrder, Len(inNew)))

\* moveTask lines 295-299
moveUpdatedTasks(ts, id, newStatus, newOrder, stamp, clock) ==
    SelectSeq(ts, LAMBDA t : t.id # id /\ getEffectiveStatus(t, clock) # newStatus)
    \o moveUpdatedTasksInStatus(ts, id, newStatus, newOrder, stamp, clock)

\* lines 306-327 with every task of the destination partition written
moveWritesAll(updatedInStatus, originalTasks) ==
    [i \in 1..Len(updatedInStatus) |->
        [id |-> updatedInStatus[i].id,
         data |-> [status |-> updatedInStatus[i].status,
                   order |-> updatedInStatus[i].order]]]

\* moveTask lines 306-327
moveWrites(updatedInStatus, originalTasks) ==
    LET tasksToUpdate == SelectSeq(updatedInStatus, LAMBDA u :
            \/ ~Has(originalTasks, u.id)
            \/ Find(originalTasks, u.id).order # u.order
            \/ Find(originalTasks, u.id).status # u.status)
    IN [i \in 1..Len(tasksToUpdate) |->
          [id |-> tasksToUpdate[i].id,
           data |-> [status |-> tasksToUpdate[i].status,
                     order |-> tasksToUpdate[i].order]]]

\* findIndex, 0-based, -1 when absent
FindIndex(s, id) ==
    IF Has(s, id)
    THEN (CHOOSE i \in 1..Len(s) : s[i].id = id /\ \A j \in 1..(i - 1) : s[j].id # id) - 1
    ELSE 0 - 1

\* exchanging the two entries instead of removing and reinserting
ReinsertSwaps(s, currentIndex, newOrder) ==
    [i \in 1..Len(s) |->
        IF i = Min(newOrder, Len(s) - 1) + 1 THEN s[currentIndex + 1]
        ELSE IF i = currentIndex + 1 THEN s[Min(newOrder, Len(s) - 1) + 1]
        ELSE s[i]]

\* splice(currentIndex, 1) then splice(newOrder, 0, removed)
Reinsert(s, currentIndex, newOrder) ==
    LET without == SubSeq(s, 1, currentIndex) \o SubSeq(s, currentIndex + 2, Len(s))
    IN Slice(without, 0, newOrder) \o <<s[currentIndex + 1]>>
       \o Slice(without, newOrder, Len(without))

\* reorderTasks lines 354-372
reorderUpdatedTasksInStatus(ts, taskId, newOrder, stamp, clock) ==
    LET status == getEffectiveStatus(Find(ts, taskId), clock)
        tasksInStatus == getTasksByStatus(ts, status, clock)
        currentIndex == FindIndex(tasksInStatus, taskId)
        reordered == Reinsert(tasksInStatus, currentIndex, newOrder)
    IN [i \in 1..Len(reordered) |->
          [reordered[i] EXCEPT
              !.order = i - 1,
              !.updatedAt = IF reordered[i].id = taskId THEN stamp ELSE @]]

\* reorderTasks lines 375-376
reorderUpdatedTasks(ts, taskId, newOrder, stamp, clock) ==
    LET status == getEffectiveStatus(Find(ts, taskId), clock)
    IN SelectSeq(ts, LAMBDA t : getEffectiveStatus(t, clock) # status)
       \o reorderUpdatedTasksInStatus(ts, taskId, newOrder, stamp, clock)

\* reorderTasks lines 383-397
reorderWrites(updatedInStatus, originalTasks) ==
    LET tasksToUpdate == SelectSeq(updatedInStatus, LAMBDA u :
            ~Has(originalTasks, u.id) \/ Find(originalTasks, u.id).order # u.order)
    IN [i \in 1..Len(tasksToUpdate) |->
          [id |-> tasksToUpdate[i].id, data |-> [order |-> tasksToUpdate[i].order]]]

-----------------------------------------------------------------------------
(* Inputs *)

PastDate == DateAt(0, 0)
Today == DateAt(1, 1)

\* the rows a session can start from: every row is a planning task without
\* a due date or an in-progress task that is overdue; orders are dense per
\* effective status
Profiles == {[status |-> "planning", due_date |-> NoDate],
             [status |-> "in-progress", due_date |-> PastDate]}

InitTable(prof) ==
    [i \in 1..NumTasks |->
        [id |-> i, title |-> "a", status |-> prof[i].status,
         due_date |-> prof[i].due_date, updated_at |-> 0,
         order |-> Cardinality({j \in 1..(i - 1) : prof[j] = prof[i]})]]

TaskDrafts == {[title |-> "a", status |-> s, dueDate |-> NoDate] :
                  s \in {"planning", "past-due"}}

UpdateChoices == {[title |-> "b"], [status |-> "past-due"], [status |-> "completed"]}

MoveTargets == {"planning", "completed", "past-due"}

NoTask == [id |-> UnknownId]

\* the log entry of one call: "pending" at its await, "resolved" or
\* "rejected" once its promise settled; failed: some row write was answered
\* with an error or a rejection; alone: no other mutation or reload touched
\* the list while the call was in flight
Call(kind, outcome, failed, alone) ==
    [kind |-> kind, outcome |-> outcome, failed |-> failed, alone |-> alone]

\* a mutation suspended at its await: its arguments, the closure's `tasks`
\* (originalTasks), originalTask and the row writes sent
Op(kind, id, arg, orig, writes) ==
    [kind |-> kind, seq |-> now + 1, id |-> id, arg |-> arg, pre |-> tasks,
     orig |-> orig, writes |-> writes, alone |-> pending = {}]

\* the mutations already in flight are no longer alone
Crowded == {[p EXCEPT !.alone = FALSE] : p \in pending}

Issue(op) ==
    /\ pending' = Crowded \cup {op}
    /\ now' = now + 1
    /\ results' = Append(results, Call(op.kind, "pending", FALSE, op.alone))
    /\ UNCHANGED <<isLoading, error, db, loads, notes, wallClock>>

\* an early exit that throws instead of returning
EarlyReturnThrows(kind) ==
    /\ now < MaxOps
    /\ now' = now + 1
    /\ results' = Append(results, Call(kind, "rejected", FALSE, TRUE))
    /\ UNCHANGED <<tasks, isLoading, error, db, loads, notes, pending, wallClock>>

\* `if (!task) return;`: the promise resolves, nothing was touched
EarlyReturn(kind) ==
    /\ now < MaxOps
    /\ now' = now + 1
    /\ results' = Append(results, Call(kind, "resolved", FALSE, TRUE))
    /\ UNCHANGED <<tasks, isLoading, error, db, loads, notes, pending, wallClock>>

Settle(p, outcome, failed) ==
    /\ pending' = pending \ {p}
    /\ results' = [results EXCEPT ![p.seq] = Call(p.kind, outcome, failed, p.alone)]
    /\ UNCHANGED <<isLoading, error, loads, now, wallClock>>

-----------------------------------------------------------------------------
(* State after construction: the list is empty, the mount effect has       *)
(* issued the first fetchTasks                                             *)

Init ==
    /\ tasks = <<>>
    /\ isLoading = TRUE
    /\ error = NoError
    /\ db \in {InitTable(prof) : prof \in [1..NumTasks -> Profiles]}
    /\ loads = SetToBag({serverQuery(db)})
    /\ notes = 0
    /\ pending = {}
    /\ now = 0
    /\ wallClock = Today
    /\ results = <<>>
    /\ modal = ModalClosed
    /\ filters = NoFilters
    /\ view = NoView
    /\ auth = SignedIn
    /\ storage = Stored(NoItem)

-----------------------------------------------------------------------------
(* fetchTasks and the change subscription *)

\* lines 111-118: a change notification starts a full reload
onChange ==
    /\ notes > 0
    /\ BagCardinality(loads) < MaxLoads
    /\ notes' = notes - 1
    /\ loads' = loads (+) SetToBag({serverQuery(db)})
    /\ UNCHANGED <<tasks, isLoading, error, db, pending, now, wallClock, results>>

\* lines 83-103, after the await
fetchTasksReply(data, reply) ==
    /\ BagIn(data, loads)
    /\ loads' = loads (-) SetToBag({data})
    /\ IF reply = "ok"
       THEN /\ tasks' = [i \in 1..Len(data) |-> dbToTask(data[i])]
            /\ error' = NoError
       ELSE /\ error' = "Failed to fetch tasks"
            /\ UNCHANGED tasks
    /\ isLoading' = FALSE
    /\ pending' = Crowded
    /\ UNCHANGED <<db, notes, now, wallClock, results>>

-----------------------------------------------------------------------------
(* addTask *)

addTask(taskData) ==
    /\ now < MaxOps
    /\ LET tempId == TempId(now + 1)
           t == optimisticTask(tasks, taskData, tempId, now + 1, wallClock)
       IN /\ tasks' = Append(tasks, t)
          /\ Issue(Op("addTask", tempId, taskData, NoTask,
                      <<[id |-> tempId, data |-> taskToDbInsert(taskData)]>>))

\* the temporary entry taken out and the server's record put at the end
confirmCreateReinserts(ts, tempId, realTask) ==
    Append(SelectSeq(ts, LAMBDA t : t.id # tempId), realTask)

\* line 161: prev.map(t => t.id === tempId ? realTask : t)
confirmCreate(ts, tempId, realTask) ==
    [i \in 1..Len(ts) |-> IF ts[i].id = tempId THEN realTask ELSE ts[i]]

addTaskReply(p, reply) ==
    /\ p \in pending /\ p.kind = "addTask"
    /\ reply \in RowReplies(p.writes[1])
    /\ IF reply = "ok"
       THEN LET table == serverInsert(db, ServerId(p.seq), p.writes[1].data)
                realTask == dbToTask(table[Len(table)])
            IN /\ db' = table
               /\ notes' = notes + 1
               /\ tasks' = confirmCreate(tasks, p.id, realTask)
       ELSE /\ tasks' = SelectSeq(tasks, LAMBDA t : t.id # p.id)
            /\ UNCHANGED <<db, notes>>
    /\ Settle(p, IF reply = "ok" THEN "resolved" ELSE "rejected", reply # "ok")

-----------------------------------------------------------------------------
(* updateTask *)

\* line 221, with the refreshed timestamp left in place
updateRollbackKeepsStamp(ts, id, originalTask) ==
    [i \in 1..Len(ts) |->
        IF ts[i].id = id
        THEN [originalTask EXCEPT !.updatedAt = ts[i].updatedAt] ELSE ts[i]]

\* line 221: prev.map(t => t.id === id ? originalTask : t)
updateRollback(ts, id, originalTask) ==
    [i \in 1..Len(ts) |-> IF ts[i].id = id THEN originalTask ELSE ts[i]]

updateTask(id, updates) ==
    IF ~Has(tasks, id)
    THEN EarlyReturn("updateTask")
    ELSE /\ now < MaxOps
         /\ tasks' = updateOptimistic(tasks, id, updates, now + 1)
         /\ Issue(Op("updateTask", id, updates, Find(tasks, id),
                     <<[id |-> id, data |-> dbUpdates(updates, Find(tasks, id))]>>))

updateTaskReply(p, reply) ==
    /\ p \in pending /\ p.kind = "updateTask"
    /\ reply \in RowReplies(p.writes[1])
    /\ IF reply = "ok"
       THEN /\ db' = serverUpdate(db, p.id, p.writes[1].data)
            /\ notes' = notes + Committed(db, p.writes, <<reply>>)
            /\ UNCHANGED tasks
       ELSE /\ tasks' = updateRollback(tasks, p.id, p.orig)
            /\ UNCHANGED <<db, notes>>
    /\ Settle(p, IF reply = "ok" THEN "resolved" ELSE "rejected", reply # "ok")

-----------------------------------------------------------------------------
(* deleteTask *)

\* a rollback that puts the deleted task back at the end of the current list
deleteRollbackAppends(ts, originalTasks, id) == Append(ts, Find(originalTasks, id))

\* line 256: setTasks(originalTasks)
deleteRollback(ts, originalTasks, id) == originalTasks

deleteTask(id) ==
    IF ~Has(tasks, id)
    THEN EarlyReturn("deleteTask")
    ELSE /\ now < MaxOps
         /\ tasks' = SelectSeq(tasks, LAMBDA t : t.id # id)
         /\ Issue(Op("deleteTask", id, <<>>, NoTask, <<[id |-> id, data |-> <<>>]>>))

deleteTaskReply(p, reply) ==
    /\ p \in pending /\ p.kind = "deleteTask"
    /\ reply \in Replies
    /\ IF reply = "ok"
       THEN /\ db' = serverDelete(db, p.id)
            /\ notes' = notes + Committed(db, p.writes, <<reply>>)
            /\ UNCHANGED tasks
       ELSE /\ tasks' = deleteRollback(tasks, p.pre, p.id)
            /\ UNCHANGED <<db, notes>>
    /\ Settle(p, IF reply = "ok" THEN "resolved" ELSE "rejected", reply # "ok")

-----------------------------------------------------------------------------
(* moveTask, reorderTasks *)

moveTask(id, newStatus, newOrder) ==
    LET arg == [status |-> newStatus, order |-> newOrder] IN
    IF ~Has(tasks, id)
    THEN EarlyReturn("moveTask")
    ELSE /\ now < MaxOps
         /\ tasks' = moveUpdatedTasks(tasks, id, newStatus, newOrder, now + 1, wallClock)
         /\ Issue(Op("moveTask", id, arg, NoTask,
                     moveWrites(moveUpdatedTasksInStatus(
                         tasks, id, newStatus, newOrder, now + 1, wallClock), tasks)))

reorderTasks(taskId, newOrder) ==
    LET arg == [order |-> newOrder] IN
    IF ~Has(tasks, taskId)
    THEN EarlyReturn("reorderTasks")
    ELSE IF FindIndex(getTasksByStatus(tasks,
                getEffectiveStatus(Find(tasks, taskId), wallClock), wallClock),
                taskId) = newOrder
    THEN EarlyReturn("reorderTasks")
    ELSE /\ now < MaxOps
         /\ tasks' = reorderUpdatedTasks(tasks, taskId, newOrder, now + 1, wallClock)
         /\ Issue(Op("reorderTasks", taskId, arg, NoTask,
                     reorderWrites(reorderUpdatedTasksInStatus(
                         tasks, taskId, newOrder, now + 1, wallClock), tasks)))

\* await Promise.all(...): the rows answered "ok" are written; the results
\* are not inspected, so only a rejected promise reaches the catch
batchReply(p, replies) ==
    /\ \A k \in 1..Len(p.writes) : replies[k] \in RowReplies(p.writes[k])
    /\ db' = serverUpdateAll(db, p.writes, replies)
    /\ notes' = notes + Committed(db, p.writes, replies)
    /\ IF \E k \in 1..Len(p.writes) : replies[k] = "throw"
       THEN /\ tasks' = p.pre
            /\ Settle(p, "rejected", TRUE)
       ELSE /\ UNCHANGED tasks
            /\ Settle(p, "resolved", \E k \in 1..Len(p.writes) : replies[k] # "ok")

moveTaskReply(p, replies) ==
    /\ p \in pending /\ p.kind = "moveTask"
    /\ batchReply(p, replies)

reorderTasksReply(p, replies) ==
    /\ p \in pending /\ p.kind = "reorderTasks"
    /\ batchReply(p, replies)

-----------------------------------------------------------------------------

Ids == {tasks[i].id : i \in 1..Len(tasks)}

Next ==
    \/ onChange /\ UNCHANGED UI
    \/ \E data \in BagToSet(loads), reply \in {"ok", "error"} :
          fetchTasksReply(data, reply) /\ UNCHANGED UI
    \/ now < MaxOps /\ \E id \in Ids \cup {UnknownId} : deleteTask(id) /\ UNCHANGED UI
    \/ \E p \in pending, reply \in Replies : deleteTaskReply(p, reply) /\ UNCHANGED UI
    \/ now < MaxOps /\ \E id \in Ids \cup {UnknownId}, updates \in UpdateChoices :
          updateTask(id, updates) /\ UNCHANGED UI
    \/ \E p \in pending, reply \in Replies : updateTaskReply(p, reply) /\ UNCHANGED UI
    \/ now < MaxOps /\ \E id \in Ids \cup {UnknownId}, newStatus \in MoveTargets :
          \E newOrder \in 0..Len(tasksInNewStatus(tasks, id, newStatus, wallClock)) :
             moveTask(id, newStatus, newOrder) /\ UNCHANGED UI
    \/ \E p \in pending : \E replies \in [1..Len(p.writes) -> Replies] :
          moveTaskReply(p, replies) /\ UNCHANGED UI
    \/ now < MaxOps /\ \E taskId \in Ids \cup {UnknownId} :
          \E newOrder \in 0..(Len(tasks) - 1) : reorderTasks(taskId, newOrder) /\ UNCHANGED UI
    \/ \E p \in pending : \E replies \in [1..Len(p.writes) -> Replies] :
          reorderTasksReply(p, replies) /\ UNCHANGED UI
    \/ now < MaxOps /\ \E taskData \in TaskDrafts : addTask(taskData) /\ UNCHANGED UI
    \/ \E p \in pending, reply \in Replies : addTaskReply(p, reply) /\ UNCHANGED UI

Spec == Init /\ [][Next]_vars

\* the same session with a single call left: the earlier calls were no-ops
InitOne ==
    /\ tasks = <<>>
    /\ isLoading = TRUE
    /\ error = NoError
    /\ db \in {InitTable(prof) : prof \in [1..NumTasks -> Profiles]}
    /\ loads = SetToBag({serverQuery(db)})
    /\ notes = 0
    /\ pending = {}
    /\ now = MaxOps - 1
    /\ wallClock = Today
    /\ results = [k \in 1..(MaxOps - 1) |-> Call("none", "resolved", FALSE, TRUE)]
    /\ modal = ModalClosed
    /\ filters = NoFilters
    /\ view = NoView
    /\ auth = SignedIn
    /\ storage = Stored(NoItem)

SpecOne == InitOne /\ [][Next]_vars

\* the same session with two calls left
InitTwo ==
    /\ tasks = <<>>
    /\ isLoading = TRUE
    /\ error = NoError
    /\ db \in {InitTable(prof) : prof \in [1..NumTasks -> Profiles]}
    /\ loads = SetToBag({serverQuery(db)})
    /\ notes = 0
    /\ pending = {}
    /\ now = MaxOps - 2
    /\ wallClock = Today
    /\ results = [k \in 1..(MaxOps - 2) |-> Call("none", "resolved", FALSE, TRUE)]
    /\ modal = ModalClosed
    /\ filters = NoFilters
    /\ view = NoView
    /\ auth = SignedIn
    /\ storage = Stored(NoItem)

SpecTwo == InitTwo /\ [][Next]_vars

-----------------------------------------------------------------------------
(* The task modal: src/src/components/task/TaskModal/TaskModal.tsx with    *)
(* openTaskModal and closeTaskModal of the UI context.  Every mutation of  *)
(* the session is issued by the modal.                                     *)

\* UIContext lines 539-541
openTaskModal(taskId) ==
    /\ ~modal.isOpen
    /\ modal' = [modal EXCEPT !.isOpen = TRUE, !.taskId = taskId]
    /\ UNCHANGED <<tasks, isLoading, error, db, loads, notes, pending, now, wallClock,
                   results, filters, view, auth, storage>>

\* UIContext lines 543-545, called by the user (Escape, Modal onClose)
closeTaskModal ==
    /\ modal.isOpen
    /\ modal' = [modal EXCEPT !.isOpen = FALSE, !.taskId = NoId]
    /\ UNCHANGED <<tasks, isLoading, error, db, loads, notes, pending, now, wallClock,
                   results, filters, view, auth, storage>>

\* TaskModal lines 16-19: the task being edited, or none
modalHasTask == modal.taskId # NoId /\ Has(tasks, modal.taskId)

\* setIsSaving(true) and the await of the store call
startSaving(m, seq, action) ==
    [m EXCEPT !.isSaving = TRUE,
              !.awaiting = @ \cup {[seq |-> seq, action |-> action]}]

\* TaskModal lines 21-38: handleSubmit up to its await
handleSubmit(data) ==
    /\ modal.isOpen /\ ~modal.isSaving
    /\ IF modalHasTask
       THEN /\ updateTask(modal.taskId, data)
            /\ modal' = startSaving(modal, now + 1, "update")
       ELSE /\ addTask(data)
            /\ modal' = startSaving(modal, now + 1, "create")
    /\ UNCHANGED <<filters, view, auth, storage>>

\* TaskModal lines 49-56: handleDelete up to its await
handleDelete ==
    /\ modal.isOpen /\ ~modal.isSaving
    /\ modalHasTask
    /\ deleteTask(modal.taskId)
    /\ modal' = startSaving(modal, now + 1, "delete")
    /\ UNCHANGED <<filters, view, auth, storage>>

\* a handler that closes the modal whatever the outcome
afterAwaitAlwaysCloses(m, h, resolved) ==
    [m EXCEPT !.isOpen = FALSE,
              !.taskId = NoId,
              !.toasts = IF resolved THEN @ ELSE Append(@, h.action),
              !.isSaving = FALSE,
              !.awaiting = @ \ {h}]

\* TaskModal lines 39-46 and 57-63: closeTaskModal() after the await, or
\* showError in the catch; setIsSaving(false) in the finally
afterAwait(m, h, resolved) ==
    [m EXCEPT !.isOpen = IF resolved THEN FALSE ELSE @,
              !.taskId = IF resolved THEN NoId ELSE @,
              !.toasts = IF resolved THEN @ ELSE Append(@, h.action),
              !.isSaving = FALSE,
              !.awaiting = @ \ {h}]

\* the handler awaiting the call p resumes with its outcome
resume(p) ==
    /\ \E h \in modal.awaiting :
          /\ h.seq = p.seq
          /\ modal' = afterAwait(modal, h, results'[p.seq].outcome = "resolved")
    /\ UNCHANGED <<filters, view, auth, storage>>

InitModal ==
    /\ tasks = <<>>
    /\ isLoading = TRUE
    /\ error = NoError
    /\ db \in {InitTable(prof) : prof \in [1..NumTasks -> Profiles]}
    /\ loads = SetToBag({serverQuery(db)})
    /\ notes = 0
    /\ pending = {}
    /\ now = MaxOps - 2
    /\ wallClock = Today
    /\ results = [k \in 1..(MaxOps - 2) |-> Call("none", "resolved", FALSE, TRUE)]
    /\ modal = ModalClosed
    /\ filters = NoFilters
    /\ view = NoView
    /\ auth = SignedIn
    /\ storage = Stored(NoItem)

NextModal ==
    \/ onChange /\ UNCHANGED UI
    \/ \E data \in BagToSet(loads), reply \in {"ok", "error"} :
          fetchTasksReply(data, reply) /\ UNCHANGED UI
    \/ \E taskId \in Ids \cup {NoId} : openTaskModal(taskId)
    \/ closeTaskModal
    \/ now < MaxOps /\ \E data \in TaskDrafts : handleSubmit(data)
    \/ now < MaxOps /\ handleDelete
    \/ \E p \in pending, reply \in Replies : addTaskReply(p, reply) /\ resume(p)
    \/ \E p \in pending, reply \in Replies : updateTaskReply(p, reply) /\ resume(p)
    \/ \E p \in pending, reply \in Replies : deleteTaskReply(p, reply) /\ resume(p)

SpecModal == InitModal /\ [][NextModal]_vars

-----------------------------------------------------------------------------
(* One call on an arbitrary list: the synchronous part of each mutation,   *)
(* applied to every list of at most MaxLen entries with distinct ids whose *)
(* orders are any values below MaxLen (gaps and repeats included, as       *)
(* deletes and moves leave them).                                          *)

StepProfiles == {[status |-> "planning", dueDate |-> NoDate],
                 [status |-> "in-progress", dueDate |-> PastDate],
                 [status |-> "completed", dueDate |-> PastDate]}

StepLists ==
    UNION {[1..n -> {[id |-> 0, title |-> "a", status |-> pr.status,
                      dueDate |-> pr.dueDate, updatedAt |-> 0, order |-> o] :
                         pr \in StepProfiles, o \in 0..(MaxLen - 1)}] :
              n \in 0..MaxLen}

\* entry i carries id i
WithIds(ts) == [i \in 1..Len(ts) |-> [ts[i] EXCEPT !.id = i]]

InitStep ==
    /\ tasks \in {WithIds(ts) : ts \in StepLists}
    /\ isLoading = FALSE
    /\ error = NoError
    /\ db = <<>>
    /\ loads = EmptyBag
    /\ notes = 0
    /\ pending = {}
    /\ now = MaxOps - 1
    /\ wallClock = Today
    /\ results = [k \in 1..(MaxOps - 1) |-> Call("none", "resolved", FALSE, TRUE)]
    /\ modal = ModalClosed
    /\ filters = NoFilters
    /\ view = NoView
    /\ auth = SignedIn
    /\ storage = Stored(NoItem)

NextStep ==
    \/ now < MaxOps /\ \E id \in Ids \cup {UnknownId} : deleteTask(id) /\ UNCHANGED UI
    \/ now < MaxOps /\ \E id \in Ids \cup {UnknownId}, updates \in UpdateChoices :
          updateTask(id, updates) /\ UNCHANGED UI
    \/ now < MaxOps /\ \E id \in Ids \cup {UnknownId}, newStatus \in Statuses :
          \E newOrder \in 0..Len(tasksInNewStatus(tasks, id, newStatus, wallClock)) :
             moveTask(id, newStatus, newOrder) /\ UNCHANGED UI
    \/ now < MaxOps /\ \E taskId \in Ids \cup {UnknownId} :
          \E newOrder \in 0..(Len(tasks) - 1) : reorderTasks(taskId, newOrder) /\ UNCHANGED UI
    \/ now < MaxOps /\ \E taskData \in TaskDrafts : addTask(taskData) /\ UNCHANGED UI

SpecStep == InitStep /\ [][NextStep]_vars

-----------------------------------------------------------------------------
(* The filter layer: src/src/hooks/useFilteredTasks.ts.  A string is the   *)
(* sequence of its characters.                                             *)

\* description: string | null
NoText == [kind |-> "null"]
Text(str) == [kind |-> "text", str |-> str]

toLowerCase(str) == [i \in 1..Len(str) |-> IF str[i] = "A" THEN "a"
                                           ELSE IF str[i] = "B" THEN "b" ELSE str[i]]

\* String.prototype.includes
includes(str, query) ==
    \E i \in 0..(Len(str) - Len(query)) : SubSeq(str, i + 1, i + Len(query)) = query

\* Array.prototype.includes
Contains(arr, x) == \E i \in 1..Len(arr) : arr[i] = x

\* lines 14-44 without the toLowerCase of the title and the description
matchesFiltersCaseSensitive(task, f, clock) ==
    /\ ~(f.assigneeId # NoAssignee /\ task.assigneeId # f.assigneeId)
    /\ ~(Len(f.categories) > 0 /\ ~Contains(f.categories, task.category))
    /\ ~(Len(f.statuses) > 0 /\ ~Contains(f.statuses, getEffectiveStatus(task, clock)))
    /\ ~(/\ f.searchQuery # <<>>
         /\ LET query == toLowerCase(f.searchQuery)
                matchesTitle == includes(task.title, query)
                matchesDescription ==
                    task.description # NoText /\ includes(task.description.str, query)
            IN ~matchesTitle /\ ~matchesDescription)

\* lines 14-44: the callback of tasks.filter
matchesFilters(task, f, clock) ==
    /\ ~(f.assigneeId # NoAssignee /\ task.assigneeId # f.assigneeId)
    /\ ~(Len(f.categories) > 0 /\ ~Contains(f.categories, task.category))
    /\ ~(Len(f.statuses) > 0 /\ ~Contains(f.statuses, getEffectiveStatus(task, clock)))
    /\ ~(/\ f.searchQuery # <<>>
         /\ LET query == toLowerCase(f.searchQuery)
                matchesTitle == includes(toLowerCase(task.title), query)
                matchesDescription ==
                    /\ task.description # NoText
                    /\ includes(toLowerCase(task.description.str), query)
            IN ~matchesTitle /\ ~matchesDescription)

\* lines 13-45
filteredTasks(ts, f, clock) == SelectSeq(ts, LAMBDA t : matchesFilters(t, f, clock))

\* String.prototype.localeCompare on two ISO date strings of one format
localeCompare(a, b) ==
    IF isBefore(a, b) THEN 0 - 1 ELSE IF isBefore(b, a) THEN 1 ELSE 0

\* a comparator that puts the tasks without a due date first
sortByDueDateUndatedFirst(a, b) ==
    IF a.dueDate.kind = "null" /\ b.dueDate.kind = "null" THEN 0
    ELSE IF a.dueDate.kind = "null" THEN 0 - 1
    ELSE IF b.dueDate.kind = "null" THEN 1
    ELSE localeCompare(a.dueDate, b.dueDate)

\* lines 51-56
sortByDueDate(a, b) ==
    IF a.dueDate.kind = "null" /\ b.dueDate.kind = "null" THEN 0
    ELSE IF a.dueDate.kind = "null" THEN 1
    ELSE IF b.dueDate.kind = "null" THEN 0 - 1
    ELSE localeCompare(a.dueDate, b.dueDate)

RECURSIVE InsertByDueDate(_, _)
InsertByDueDate(sorted, t) ==
    IF sorted = <<>> THEN <<t>>
    ELSE IF sortByDueDate(t, Head(sorted)) < 0 THEN <<t>> \o sorted
    ELSE <<Head(sorted)>> \o InsertByDueDate(Tail(sorted), t)

\* Array.prototype.sort(sortByDueDate): stable
RECURSIVE SortByDueDate(_)
SortByDueDate(s) ==
    IF s = <<>> THEN <<>>
    ELSE InsertByDueDate(SortByDueDate(SubSeq(s, 1, Len(s) - 1)), s[Len(s)])

\* lines 58-61
filterAndSort(ts, f, status, clock) ==
    SortByDueDate(SelectSeq(filteredTasks(ts, f, clock),
                            LAMBDA t : getEffectiveStatus(t, clock) = status))

\* lines 49-69
tasksByStatus(ts, f, clock) ==
    [status \in Statuses |-> filterAndSort(ts, f, status, clock)]

\* the tasks the filter is applied to
FilterShapes ==
    {[id |-> 0, title |-> txt.title, description |-> txt.description,
      category |-> c, assigneeId |-> a, status |-> pr.status, dueDate |-> pr.due_date,
      updatedAt |-> 0, order |-> 0] :
        txt \in {[title |-> <<"A", "b">>, description |-> NoText],
                 [title |-> <<"b">>, description |-> Text(<<"B", "a">>)],
                 [title |-> <<"b">>, description |-> NoText]},
        c \in {"sales", "testing"},
        a \in {NoAssignee, "u1"},
        pr \in Profiles}

FilterLists == UNION {[1..n -> FilterShapes] : n \in 0..MaxShown}

FilterStates ==
    {[assigneeId |-> a, categories |-> cs, statuses |-> ss, searchQuery |-> q] :
        a \in {NoAssignee, "u1"},
        cs \in {<<>>, <<"sales">>},
        ss \in {<<>>, <<"past-due">>, <<"planning", "completed">>},
        q \in {<<>>, <<"a">>, <<"A", "B">>}}

\* a consumer reads filteredTasks
filteredTasksCall ==
    /\ view.kind = "none"
    /\ view' = [kind |-> "filteredTasks", out |-> filteredTasks(tasks, filters, wallClock)]
    /\ UNCHANGED <<tasks, isLoading, error, db, loads, notes, pending, now, wallClock,
                   results, modal, filters, auth, storage>>

InitFilter ==
    /\ tasks \in {WithIds(ts) : ts \in FilterLists}
    /\ isLoading = FALSE
    /\ error = NoError
    /\ db = <<>>
    /\ loads = EmptyBag
    /\ notes = 0
    /\ pending = {}
    /\ now = 0
    /\ wallClock = Today
    /\ results = <<>>
    /\ modal = ModalClosed
    /\ filters \in FilterStates
    /\ view = NoView
    /\ auth = SignedIn
    /\ storage = Stored(stringify(filters))

NextFilter == filteredTasksCall

SpecFilter == InitFilter /\ [][NextFilter]_vars

-----------------------------------------------------------------------------
(* The derived views by status: tasksByStatus of the filter layer and      *)
(* getTasksByStatus of the store, on every list of at most MaxLen entries. *)

DueShapes ==
    {[id |-> 0, title |-> <<"b">>, description |-> NoText, category |-> "sales",
      assigneeId |-> NoAssignee, status |-> st, dueDate |-> due, updatedAt |-> 0,
      order |-> 0] :
        st \in {"planning", "completed"},
        due \in {DateAt(d, 0) : d \in 0..MaxDay} \cup {NoDate}}

DueLists == UNION {[1..n -> DueShapes] : n \in 0..MaxLen}

ViewFilters == {NoFilters, [NoFilters EXCEPT !.statuses = <<"planning", "past-due">>]}

\* a consumer reads tasksByStatus
tasksByStatusCall ==
    /\ view.kind = "none"
    /\ view' = [kind |-> "tasksByStatus", out |-> tasksByStatus(tasks, filters, wallClock)]
    /\ UNCHANGED <<tasks, isLoading, error, db, loads, notes, pending, now, wallClock,
                   results, modal, filters, auth, storage>>

\* a consumer calls getTasksByStatus(status)
getTasksByStatusCall(status) ==
    /\ view.kind = "none"
    /\ view' = [kind |-> "getTasksByStatus", arg |-> status,
                out |-> getTasksByStatus(tasks, status, wallClock)]
    /\ UNCHANGED <<tasks, isLoading, error, db, loads, notes, pending, now, wallClock,
                   results, modal, filters, auth, storage>>

InitView ==
    /\ tasks \in {WithIds(ts) : ts \in StepLists \cup DueLists}
    /\ isLoading = FALSE
    /\ error = NoError
    /\ db = <<>>
    /\ loads = EmptyBag
    /\ notes = 0
    /\ pending = {}
    /\ now = 0
    /\ wallClock = Today
    /\ results = <<>>
    /\ modal = ModalClosed
    /\ filters \in ViewFilters
    /\ view = NoView
    /\ auth = SignedIn
    /\ storage = Stored(stringify(filters))

NextView ==
    \/ tasksByStatusCall
    \/ \E status \in Statuses : getTasksByStatusCall(status)

SpecView == InitView /\ [][NextView]_vars

-----------------------------------------------------------------------------
(* getEffectiveStatus on every stored status, due date and current time    *)

Dates == {DateAt(d, t) : d \in 0..MaxDay, t \in 0..1}

InitDate ==
    /\ tasks \in {<<[id |-> 1, title |-> "a", status |-> st, dueDate |-> due,
                      updatedAt |-> 0, order |-> 0]>> :
                      st \in DbTaskStatus, due \in Dates \cup {NoDate, BadDate}}
    /\ isLoading = FALSE
    /\ error = NoError
    /\ db = <<>>
    /\ loads = EmptyBag
    /\ notes = 0
    /\ pending = {}
    /\ now = 0
    /\ wallClock \in Dates
    /\ results = <<>>
    /\ modal = ModalClosed
    /\ filters = NoFilters
    /\ view = NoView
    /\ auth = SignedIn
    /\ storage = Stored(NoItem)

\* a consumer asks for the status of the task; the log keeps the answer
effectiveStatusCall ==
    /\ results = <<>>
    /\ results' = <<Call("getEffectiveStatus",
                         getEffectiveStatus(tasks[1], wallClock), FALSE, TRUE)>>
    /\ UNCHANGED <<tasks, isLoading, error, db, loads, notes, pending, now, wallClock>>
    /\ UNCHANGED UI

NextDate == effectiveStatusCall

SpecDate == InitDate /\ [][NextDate]_vars

-----------------------------------------------------------------------------
(* Vocabulary of the properties *)

\* the call p received its answer in this step
Settled(p) == p \in pending /\ \A q \in pending' : q.seq # p.seq

\* the call p was issued in this step
Issued(p) == p \in pending' /\ now' = now + 1 /\ p.seq = now'

Orders(ts, status, clock) ==
    LET part == Partition(ts, status, clock)
    IN {part[i].order : i \in 1..Len(part)}

\* every effective-status partition carries the orders 0..n-1, each once
Dense(ts, clock) ==
    \A status \in Statuses :
        LET n == Len(Partition(ts, status, clock))
        IN Orders(ts, status, clock) = 0..(n - 1)

IdsOf(ts) == {ts[i].id : i \in 1..Len(ts)}

-----------------------------------------------------------------------------
(* C1: order density.  Starting from a list whose effective-status         *)
(* partitions each carry the orders 0..n-1, once a single mutation (no     *)
(* other mutation or reload in between) has settled successfully, every    *)
(* partition again carries exactly the orders 0..n-1.                      *)

C1_OrderDensity ==
    [][\A p \in pending :
          (/\ Settled(p)
           /\ p.alone
           /\ results'[p.seq].outcome = "resolved"
           /\ ~results'[p.seq].failed
           /\ Dense(p.pre, wallClock))
          => Dense(tasks', wallClock)]_vars

-----------------------------------------------------------------------------
(* C2: batch atomicity.  When a row update of a move or reorder batch is   *)
(* answered with a failure, the list is restored to the list as it was     *)
(* when the operation was issued and the operation is rejected.            *)

C2_BatchAtomicity ==
    [][\A p \in pending :
          (/\ Settled(p)
           /\ p.kind \in {"moveTask", "reorderTasks"}
           /\ results'[p.seq].failed)
          => /\ tasks' = p.pre
             /\ results'[p.seq].outcome = "rejected"]_vars

-----------------------------------------------------------------------------
(* C3: a failed update, with no other mutation or reload in flight, leaves *)
(* the list exactly as it was when the update was issued (updatedAt        *)
(* included) and is rejected.                                              *)

C3_UpdateRollback ==
    [][\A p \in pending :
          (/\ Settled(p)
           /\ p.kind = "updateTask"
           /\ p.alone
           /\ results'[p.seq].failed)
          => /\ tasks' = p.pre
             /\ results'[p.seq].outcome = "rejected"]_vars

\* an update of a loaded task was refused and rolled back with nothing else
\* in flight
C3_Witness ==
    \E k \in 1..Len(results) :
        /\ results[k] = Call("updateTask", "rejected", TRUE, TRUE)
        /\ pending = {}
        /\ Len(tasks) = NumTasks
        /\ \A i \in 1..Len(tasks) : tasks[i].updatedAt = 0

-----------------------------------------------------------------------------
(* C4: once a create whose insert failed has settled, no entry of the list *)
(* carries its temporary id, in every later state.                         *)

C4_NoPhantom ==
    \A k \in 1..Len(results) :
        (results[k].kind = "addTask" /\ results[k].outcome = "rejected")
        => ~Has(tasks, TempId(k))

-----------------------------------------------------------------------------
(* C5: a failed delete, with no other mutation or reload in flight,        *)
(* restores the list as it was when the delete was issued and is rejected; *)
(* a delete that succeeds leaves the task absent and the other entries as  *)
(* they were.                                                              *)

C5_DeleteSettles ==
    [][\A p \in pending :
          (Settled(p) /\ p.kind = "deleteTask" /\ p.alone)
          => IF results'[p.seq].failed
             THEN tasks' = p.pre /\ results'[p.seq].outcome = "rejected"
             ELSE /\ ~Has(tasks', p.id)
                  /\ tasks' = SelectSeq(p.pre, LAMBDA t : t.id # p.id)
                  /\ results'[p.seq].outcome = "resolved"]_vars

\* the delete of an entry that is not the last one was refused and the
\* entry is back
C5_Witness ==
    \E k \in 1..Len(results) :
        /\ results[k] = Call("deleteTask", "rejected", TRUE, TRUE)
        /\ pending = {}
        /\ Len(tasks) = NumTasks

-----------------------------------------------------------------------------
(* C6: no remote insert or update carries the status past-due: every       *)
(* status sent is planning, in-progress or completed.                      *)

C6_DerivedStatusNeverWritten ==
    \A p \in pending : \A k \in 1..Len(p.writes) : Storable(p.writes[k].data)

-----------------------------------------------------------------------------
(* C7: move result.  For a task in partition A moved to a status B other   *)
(* than A at an index newOrder <= |B|: after the optimistic step the       *)
(* moved task and the previous members of B carry the orders 0..|B|, each  *)
(* once, the moved task at newOrder and the previous members in the order  *)
(* they were displayed in; every other task is unchanged.                  *)

\* entry i is displayed before entry k of the same column
DisplayedBefore(ts, i, k) ==
    ts[i].order < ts[k].order \/ (ts[i].order = ts[k].order /\ i < k)

Members(ts, status, clock) ==
    {i \in 1..Len(ts) : getEffectiveStatus(ts[i], clock) = status}

SameEntries(old, new) == Len(new) = Len(old) /\ IdsOf(new) = IdsOf(old)

C7_MoveResult ==
    [][\A p \in pending' :
          (Issued(p) /\ p.kind = "moveTask") =>
          LET B == p.arg.status
              A == getEffectiveStatus(Find(tasks, p.id), wallClock)
              M == Members(tasks, B, wallClock)
              NewOrder(i) == Find(tasks', tasks[i].id).order
          IN (A # B /\ p.arg.order <= Cardinality(M)) =>
               /\ SameEntries(tasks, tasks')
               /\ Find(tasks', p.id).order = p.arg.order
               /\ {NewOrder(i) : i \in M} \cup {p.arg.order} = 0..Cardinality(M)
               /\ \A i, k \in M :
                     DisplayedBefore(tasks, i, k) => NewOrder(i) < NewOrder(k)
               /\ \A i \in 1..Len(tasks) :
                     (i \notin M /\ tasks[i].id # p.id)
                     => Find(tasks', tasks[i].id) = tasks[i]]_vars

\* a task was moved between two previous members of another column
C7_Witness ==
    \E p \in pending :
        /\ p.kind = "moveTask"
        /\ getEffectiveStatus(Find(p.pre, p.id), wallClock) # p.arg.status
        /\ Cardinality(Members(p.pre, p.arg.status, wallClock)) = 2
        /\ p.arg.order = 1
        /\ Find(tasks, p.id).order = 1
        /\ Orders(tasks, p.arg.status, wallClock) = 0..2

-----------------------------------------------------------------------------
(* C8: reorder result.  For a task at displayed index i of its partition   *)
(* of size n and an index j < n other than i: after reorder the task is at *)
(* index j, the other members keep their relative order, the partition     *)
(* carries the orders 0..n-1 and every task outside it is unchanged.       *)

C8_ReorderResult ==
    [][\A p \in pending' :
          (Issued(p) /\ p.kind = "reorderTasks") =>
          LET S == getEffectiveStatus(Find(tasks, p.id), wallClock)
              M == Members(tasks, S, wallClock)
              NewOrder(i) == Find(tasks', tasks[i].id).order
          IN p.arg.order < Cardinality(M) =>
               /\ SameEntries(tasks, tasks')
               /\ Members(tasks', S, wallClock)
                     = {k \in 1..Len(tasks') : \E i \in M : tasks'[k].id = tasks[i].id}
               /\ Find(tasks', p.id).order = p.arg.order
               /\ {NewOrder(i) : i \in M} = 0..(Cardinality(M) - 1)
               /\ \A i, k \in M :
                     (tasks[i].id # p.id /\ tasks[k].id # p.id
                      /\ DisplayedBefore(tasks, i, k))
                     => NewOrder(i) < NewOrder(k)
               /\ \A i \in 1..Len(tasks) :
                     i \notin M => Find(tasks', tasks[i].id) = tasks[i]]_vars

\* the task displayed third of three was moved to the front
C8_Witness ==
    \E p \in pending :
        /\ p.kind = "reorderTasks"
        /\ p.arg.order = 0
        /\ LET S == getEffectiveStatus(Find(p.pre, p.id), wallClock)
               sorted == getTasksByStatus(p.pre, S, wallClock)
           IN /\ Len(sorted) = 3
              /\ sorted[3].id = p.id
              /\ Find(tasks, sorted[1].id).order = 1
              /\ Find(tasks, sorted[2].id).order = 2
        /\ Find(tasks, p.id).order = 0

-----------------------------------------------------------------------------
(* C9: status derivation.  getEffectiveStatus answers past-due exactly     *)
(* when the stored status is not completed and the due date is a date of   *)
(* a day before the current day; otherwise it answers the stored status.   *)

C9_StatusDerivation ==
    \A k \in 1..Len(results) :
        results[k].kind = "getEffectiveStatus" =>
        LET t == tasks[1]
            overdue == /\ t.status # "completed"
                       /\ t.dueDate.kind = "date"
                       /\ t.dueDate.day < wallClock.day
        IN /\ (results[k].outcome = "past-due") <=> overdue
           /\ ~overdue => results[k].outcome = t.status

\* a task due earlier today was asked for and is not past-due
C9_Witness ==
    /\ results # <<>>
    /\ results[1].kind = "getEffectiveStatus"
    /\ tasks[1].status = "in-progress"
    /\ tasks[1].dueDate.kind = "date"
    /\ tasks[1].dueDate.day = wallClock.day
    /\ tasks[1].dueDate.tod < wallClock.tod
    /\ results[1].outcome = "in-progress"

-----------------------------------------------------------------------------
(* C10: when the status handed to an update or a move is past-due, the     *)
(* status written for the task is its last known stored status (planning   *)
(* or in-progress), so the stored status does not change.                  *)

C10_StoredStatusSurvives ==
    \A p \in pending :
        (/\ p.kind \in {"updateTask", "moveTask"}
         /\ "status" \in DOMAIN p.arg
         /\ p.arg.status = "past-due"
         /\ Find(p.pre, p.id).status \in {"planning", "in-progress"})
        => \A k \in 1..Len(p.writes) :
              (p.writes[k].id = p.id /\ "status" \in DOMAIN p.writes[k].data)
              => p.writes[k].data.status = Find(p.pre, p.id).status

-----------------------------------------------------------------------------
(* C11: load failure semantics.  When a load (the initial one or a reload) *)
(* settles with a failed query, the error field is set, isLoading is false *)
(* and the list is empty; when it settles with a successful query, the     *)
(* list is the records it returned and isLoading is false.                 *)

\* a fetchTasks query received its answer in this step
LoadSettled == BagCardinality(loads') < BagCardinality(loads)

C11_LoadFailure ==
    [][LoadSettled =>
          /\ isLoading' = FALSE
          /\ IF error' # NoError
             THEN tasks' = <<>>
             ELSE \E data \in BagToSet(loads) :
                     tasks' = [i \in 1..Len(data) |-> dbToTask(data[i])]]_vars

-----------------------------------------------------------------------------
(* C12: convergence to the server.  Once every remote call has returned,   *)
(* every change notification has been delivered and its reload has         *)
(* returned successfully, the list holds the tasks of the server's table:  *)
(* the same ids with the same statuses and orders.  (A behaviour may stop  *)
(* issuing mutations in any such state, so the list has to equal the table *)
(* in each of them for it to be equal from some point on.)                 *)

\* nothing is in flight: no mutation at its await, no query, no notification
Quiescent == pending = {} /\ loads = EmptyBag /\ notes = 0

Shown(ts) == {<<ts[i].id, ts[i].status, ts[i].order>> : i \in 1..Len(ts)}

C12_Convergence ==
    (Quiescent /\ error = NoError)
    => (Len(tasks) = Len(db) /\ Shown(tasks) = Shown(db))

-----------------------------------------------------------------------------
(* C13: create order.  The entry appended by addTask(draft) carries the    *)
(* order 1 + the greatest order among the tasks whose effective status is  *)
(* the draft's status, or 0 when there is none; it is appended after the   *)
(* existing entries, which stay as they were.                              *)

C13_CreateOrder ==
    [][\A p \in pending' :
          (Issued(p) /\ p.kind = "addTask") =>
          LET M == Members(tasks, p.arg.status, wallClock)
              new == tasks'[Len(tasks')]
          IN /\ Len(tasks') = Len(tasks) + 1
             /\ SubSeq(tasks', 1, Len(tasks)) = tasks
             /\ new.id = p.id
             /\ IF M = {}
                THEN new.order = 0
                ELSE /\ \E i \in M : new.order = tasks[i].order + 1
                     /\ \A i \in M : tasks[i].order < new.order]_vars

\* a task was created in a column of two whose orders have a gap or a repeat
C13_Witness ==
    \E p \in pending :
        /\ p.kind = "addTask"
        /\ Cardinality(Members(p.pre, p.arg.status, wallClock)) = 2
        /\ Len(tasks) = Len(p.pre) + 1
        /\ tasks[Len(tasks)].id = p.id
        /\ tasks[Len(tasks)].order = 3

-----------------------------------------------------------------------------
(* C14: create confirmation is an in-place replacement.  When the insert   *)
(* of a create succeeds while its temporary entry is in the list, the      *)
(* entry is replaced at its index by the record the server returned; the   *)
(* length and every other entry are unchanged, no entry carries the        *)
(* temporary id and the call resolves.                                     *)

C14_CreateConfirmation ==
    [][\A p \in pending :
          (/\ Settled(p)
           /\ p.kind = "addTask"
           /\ ~results'[p.seq].failed
           /\ Has(tasks, p.id))
          => LET realTask == dbToTask(db'[Len(db')])
             IN /\ realTask.id = ServerId(p.seq)
                /\ Len(tasks') = Len(tasks)
                /\ \A i \in 1..Len(tasks) :
                      tasks'[i] = IF tasks[i].id = p.id THEN realTask ELSE tasks[i]
                /\ ~Has(tasks', p.id)
                /\ results'[p.seq].outcome = "resolved"]_vars

\* the first create was confirmed while a second one is at its await: the
\* server's record stands before the second temporary entry, and no reload
\* has run since the insert
C14_Witness ==
    /\ Len(results) = MaxOps
    /\ results[MaxOps - 1].kind = "addTask"
    /\ results[MaxOps - 1].outcome = "resolved"
    /\ \E p \in pending : p.kind = "addTask" /\ p.seq = MaxOps
    /\ notes = 1 /\ loads = EmptyBag
    /\ Len(tasks) = NumTasks + 2
    /\ tasks[NumTasks + 1].id = ServerId(MaxOps - 1)
    /\ tasks[NumTasks + 2].id = TempId(MaxOps)

-----------------------------------------------------------------------------
(* C15: completedAt tracks completion.  An update or move that changes a   *)
(* task's stored status to completed sets completedAt, in memory and in    *)
(* the row update sent; one that changes it away from completed leaves no  *)
(* completedAt on the task.                                                *)

C15_CompletedAtTracks ==
    [][\A p \in pending' :
          (Issued(p) /\ p.kind \in {"updateTask", "moveTask"}) =>
          LET old == Find(tasks, p.id)
              new == Find(tasks', p.id)
          IN /\ (old.status # "completed" /\ new.status = "completed") =>
                  /\ "completedAt" \in DOMAIN new
                  /\ new.completedAt # NoDate
                  /\ \E k \in 1..Len(p.writes) :
                        /\ p.writes[k].id = p.id
                        /\ "completed_at" \in DOMAIN p.writes[k].data
                        /\ p.writes[k].data.completed_at # NoDate
             /\ (old.status = "completed" /\ new.status # "completed") =>
                  ("completedAt" \in DOMAIN new => new.completedAt = NoDate)]_vars

-----------------------------------------------------------------------------
(* C16: task modal retry contract.  When the store call awaited by a       *)
(* submit or a confirmed delete of the modal settles: if it resolved the   *)
(* modal is closed; if it was rejected the modal is left as it was (open   *)
(* unless the user closed it) and an error toast is shown; in both cases   *)
(* the saving flag is false again.                                         *)

C16_ModalRetry ==
    [][\A p \in pending :
          Settled(p) =>
          /\ modal'.isSaving = FALSE
          /\ IF results'[p.seq].outcome = "resolved"
             THEN /\ modal'.isOpen = FALSE
                  /\ modal'.toasts = modal.toasts
             ELSE /\ modal'.isOpen = modal.isOpen
                  /\ modal'.taskId = modal.taskId
                  /\ Len(modal'.toasts) = Len(modal.toasts) + 1]_vars

\* a save was rejected: the modal is still open with a toast and not
\* saving, and the second attempt is at its await
C16_Witness ==
    /\ Len(results) = MaxOps
    /\ results[MaxOps - 1].outcome = "rejected"
    /\ results[MaxOps].outcome = "pending"
    /\ modal.isOpen /\ modal.isSaving
    /\ Len(modal.toasts) = 1

-----------------------------------------------------------------------------
(* C17: filter semantics.  The filtered list holds exactly the tasks that  *)
(* satisfy all of: the assignee is the selected one when one is selected;  *)
(* the category is a selected one when any is selected; the effective      *)
(* status is a selected one when any is selected; the search string, when  *)
(* not empty, occurs in the title or the description, letter case aside.   *)
(* The task list is not modified.                                          *)

\* the string q occurs in the text, letter case aside
Occurs(q, text) ==
    \E i \in 0..(Len(text) - Len(q)) :
        \A k \in 1..Len(q) : toLowerCase(<<text[i + k]>>) = toLowerCase(<<q[k]>>)

Satisfies(t, f, clock) ==
    /\ f.assigneeId # NoAssignee => t.assigneeId = f.assigneeId
    /\ f.categories # <<>> => \E i \in 1..Len(f.categories) : f.categories[i] = t.category
    /\ f.statuses # <<>> =>
          \E i \in 1..Len(f.statuses) : f.statuses[i] = getEffectiveStatus(t, clock)
    /\ f.searchQuery # <<>> =>
          \/ Occurs(f.searchQuery, t.title)
          \/ t.description # NoText /\ Occurs(f.searchQuery, t.description.str)

C17_FilterSemantics ==
    [][view'.kind = "filteredTasks" =>
          /\ tasks' = tasks
          /\ \A i \in 1..Len(tasks) :
                Satisfies(tasks[i], filters, wallClock)
                <=> \E k \in 1..Len(view'.out) : view'.out[k] = tasks[i]
          /\ \A k \in 1..Len(view'.out) :
                \E i \in 1..Len(tasks) : view'.out[k] = tasks[i]
          /\ Cardinality(IdsOf(view'.out)) = Len(view'.out)]_vars

\* with all four criteria set, the second of two tasks is kept for a match
\* in another letter case and the first is dropped
C17_Witness ==
    /\ view.kind = "filteredTasks"
    /\ filters.assigneeId # NoAssignee
    /\ filters.categories # <<>>
    /\ filters.statuses # <<>>
    /\ filters.searchQuery = <<"A", "B">>
    /\ Len(tasks) = 2
    /\ Len(view.out) = 1
    /\ view.out[1] = tasks[2]
    /\ tasks[2].title = <<"A", "b">>

-----------------------------------------------------------------------------
(* C18: filtered partitions are ordered by due date.  In each of the four  *)
(* partitions of tasksByStatus, which holds the filtered tasks of that     *)
(* effective status, every task with a due date stands before every task   *)
(* without one and the dated tasks stand in ascending due-date order.      *)

C18_PartitionsByDueDate ==
    view.kind = "tasksByStatus" =>
    \A status \in Statuses :
        LET part == view.out[status]
        IN /\ Len(part) = Cardinality(IdsOf(part))
           /\ IdsOf(part) = {tasks[i].id : i \in
                   {i \in 1..Len(tasks) :
                       /\ getEffectiveStatus(tasks[i], wallClock) = status
                       /\ Satisfies(tasks[i], filters, wallClock)}}
           /\ \A i, j \in 1..Len(part) :
                 i < j =>
                 /\ part[j].dueDate # NoDate => part[i].dueDate # NoDate
                 /\ (part[i].dueDate # NoDate /\ part[j].dueDate # NoDate)
                    => ~isBefore(part[j].dueDate, part[i].dueDate)

\* a list of an undated task, a task due later and a task due sooner was
\* put in the order sooner, later, undated
C18_Witness ==
    /\ view.kind = "tasksByStatus"
    /\ Len(tasks) = 3
    /\ tasks[1].dueDate = NoDate
    /\ tasks[2].dueDate # NoDate /\ tasks[3].dueDate # NoDate
    /\ isBefore(tasks[3].dueDate, tasks[2].dueDate)
    /\ view.out["planning"] = <<tasks[3], tasks[2], tasks[1]>>

-----------------------------------------------------------------------------
(* C19: getTasksByStatus(status) returns exactly the tasks of the list     *)
(* whose effective status is the given one, in ascending order of their    *)
(* order field, and leaves the list as it was.                             *)

C19_GetByStatus ==
    [][view'.kind = "getTasksByStatus" =>
          LET out == view'.out
          IN /\ tasks' = tasks
             /\ Len(out) = Cardinality(Members(tasks, view'.arg, wallClock))
             /\ \A i \in 1..Len(tasks) :
                   getEffectiveStatus(tasks[i], wallClock) = view'.arg
                   <=> \E k \in 1..Len(out) : out[k] = tasks[i]
             /\ \A k \in 1..(Len(out) - 1) : out[k].order <= out[k + 1].order]_vars

\* the past-due column of three tasks listed in descending order was asked
\* for
C19_Witness ==
    /\ view.kind = "getTasksByStatus"
    /\ view.arg = "past-due"
    /\ Len(tasks) = 3
    /\ tasks[1].order > tasks[2].order /\ tasks[2].order > tasks[3].order
    /\ view.out = <<tasks[3], tasks[2], tasks[1]>>

-----------------------------------------------------------------------------
(* C20: bounded blast radius of a stale update rollback.  When an update   *)
(* U1 of a task fails while a later update U2 of the same task, touching   *)
(* other fields, is applied in the list, the rollback of U1 leaves the     *)
(* values U2 wrote in the task.                                            *)

C20_BoundedRollback ==
    [][\A p, q \in pending :
          (/\ Settled(p)
           /\ p.kind = "updateTask" /\ results'[p.seq].failed
           /\ q.kind = "updateTask" /\ q.id = p.id /\ q.seq > p.seq
           /\ DOMAIN q.arg \cap DOMAIN p.arg = {}
           /\ Has(tasks, p.id)
           /\ \A f \in DOMAIN q.arg : Find(tasks, p.id)[f] = q.arg[f])
          => \A f \in DOMAIN q.arg : Find(tasks', p.id)[f] = q.arg[f]]_vars

-----------------------------------------------------------------------------
(* Two calls from one render.  The callbacks of the store are created per  *)
(* render (useCallback with `tasks` as a dependency): where a callback     *)
(* reads `tasks` it reads the list of the render it was obtained in, where *)
(* it calls setTasks(prev => ...) it is handed the list as the updates     *)
(* queued so far have left it.  A consumer that issues two calls before    *)
(* the next render hands both the same `tasks`.                            *)

\* the calls a consumer can issue on the list it rendered
Calls(ts) ==
    {[kind |-> "addTask", id |-> UnknownId, arg |-> d] : d \in TaskDrafts}
    \cup {[kind |-> "updateTask", id |-> i, arg |-> u] :
             i \in IdsOf(ts), u \in UpdateChoices}
    \cup {[kind |-> "deleteTask", id |-> i, arg |-> <<>>] : i \in IdsOf(ts)}
    \cup {c \in {[kind |-> "moveTask", id |-> i, arg |-> [status |-> s, order |-> o]] :
                    i \in IdsOf(ts), s \in MoveTargets, o \in 0..Len(ts)} :
             c.arg.order <= Len(tasksInNewStatus(ts, c.id, c.arg.status, wallClock))}
    \cup {[kind |-> "reorderTasks", id |-> i, arg |-> [order |-> o]] :
             i \in IdsOf(ts), o \in 0..(Len(ts) - 1)}

\* the list after the setTasks of a call: closure is the `tasks` the
\* callback reads, prev the list its updater is handed
setTasks(call, closure, prev, seq, clock) ==
    CASE call.kind = "addTask" ->
            Append(prev, optimisticTask(closure, call.arg, TempId(seq), seq, clock))
      [] call.kind = "updateTask" ->
            IF ~Has(closure, call.id) THEN prev
            ELSE updateOptimistic(prev, call.id, call.arg, seq)
      [] call.kind = "deleteTask" ->
            IF ~Has(closure, call.id) THEN prev
            ELSE SelectSeq(prev, LAMBDA t : t.id # call.id)
      [] call.kind = "moveTask" ->
            IF ~Has(closure, call.id) THEN prev
            ELSE moveUpdatedTasks(closure, call.id, call.arg.status, call.arg.order,
                                  seq, clock)
      [] call.kind = "reorderTasks" ->
            IF ~Has(closure, call.id) THEN prev
            ELSE IF FindIndex(getTasksByStatus(closure,
                        getEffectiveStatus(Find(closure, call.id), clock), clock),
                        call.id) = call.arg.order
            THEN prev
            ELSE reorderUpdatedTasks(closure, call.id, call.arg.order, seq, clock)

\* the call returns before its await
returnsEarly(call, closure, clock) ==
    /\ call.kind # "addTask"
    /\ \/ ~Has(closure, call.id)
       \/ /\ call.kind = "reorderTasks"
          /\ FindIndex(getTasksByStatus(closure,
                 getEffectiveStatus(Find(closure, call.id), clock), clock),
                 call.id) = call.arg.order

\* the row writes a call sends
writesOf(call, closure, seq, clock) ==
    CASE call.kind = "addTask" ->
            <<[id |-> TempId(seq), data |-> taskToDbInsert(call.arg)]>>
      [] call.kind = "updateTask" ->
            <<[id |-> call.id, data |-> dbUpdates(call.arg, Find(closure, call.id))]>>
      [] call.kind = "deleteTask" -> <<[id |-> call.id, data |-> <<>>]>>
      [] call.kind = "moveTask" ->
            moveWrites(moveUpdatedTasksInStatus(closure, call.id, call.arg.status,
                           call.arg.order, seq, clock), closure)
      [] call.kind = "reorderTasks" ->
            reorderWrites(reorderUpdatedTasksInStatus(closure, call.id, call.arg.order,
                              seq, clock), closure)

\* the call suspended at its await
opOf(call, closure, seq, clock) ==
    [kind |-> call.kind, seq |-> seq,
     id |-> IF call.kind = "addTask" THEN TempId(seq) ELSE call.id,
     arg |-> call.arg, pre |-> closure,
     orig |-> IF call.kind = "updateTask" THEN Find(closure, call.id) ELSE NoTask,
     writes |-> writesOf(call, closure, seq, clock), alone |-> FALSE]

\* an event handler of a consumer issues first and then second, both
\* obtained from the render that read the current list
twoCalls(first, second) ==
    /\ now + 2 <= MaxOps
    /\ ~returnsEarly(first, tasks, wallClock)
    /\ ~returnsEarly(second, tasks, wallClock)
    /\ tasks' = setTasks(second, tasks,
                         setTasks(first, tasks, tasks, now + 1, wallClock),
                         now + 2, wallClock)
    /\ pending' = Crowded \cup {opOf(first, tasks, now + 1, wallClock),
                                opOf(second, tasks, now + 2, wallClock)}
    /\ now' = now + 2
    /\ results' = results \o <<Call(first.kind, "pending", FALSE, FALSE),
                               Call(second.kind, "pending", FALSE, FALSE)>>
    /\ UNCHANGED <<isLoading, error, db, loads, notes, wallClock>>

NextRender ==
    \/ \E data \in BagToSet(loads), reply \in {"ok", "error"} :
          fetchTasksReply(data, reply) /\ UNCHANGED UI
    \/ \E first \in Calls(tasks), second \in Calls(tasks) :
          twoCalls(first, second) /\ UNCHANGED UI

SpecRender == InitTwo /\ [][NextRender]_vars

-----------------------------------------------------------------------------
(* C21: call-order application.  When two mutations are issued one after   *)
(* the other before either remote call has returned, the list after the    *)
(* second call is the second optimistic change applied to the list the     *)
(* first one left: no change of the first call is discarded by the second. *)

C21_CallOrder ==
    [][\A p1, p2 \in pending' :
          (now' = now + 2 /\ p1.seq = now + 1 /\ p2.seq = now + 2) =>
          LET afterFirst == setTasks(p1, tasks, tasks, p1.seq, wallClock)
          IN tasks' = setTasks(p2, afterFirst, afterFirst, p2.seq, wallClock)]_vars

-----------------------------------------------------------------------------
(* C22: accepted full-list rollback race.  A delete, move or reorder that  *)
(* is rejected puts back the list it captured when it was issued, whatever *)
(* was applied since; so there is an interleaving in which a later         *)
(* mutation was applied and confirmed by the remote store and the rollback *)
(* of the earlier one takes its change out of the list again.              *)

FullListKinds == {"deleteTask", "moveTask", "reorderTasks"}

C22_FullListRollback ==
    [][\A p \in pending :
          (/\ Settled(p)
           /\ p.kind \in FullListKinds
           /\ results'[p.seq].outcome = "rejected")
          => tasks' = p.pre]_vars

\* a full-list mutation was rejected after a later update of another task
\* had been confirmed: the table holds the new title, the list the old one
C22_Witness ==
    /\ pending = {}
    /\ \E k1, k2 \in 1..Len(results) :
          /\ k1 < k2
          /\ results[k1].kind \in FullListKinds
          /\ results[k1].outcome = "rejected"
          /\ results[k2] = Call("updateTask", "resolved", FALSE, FALSE)
    /\ \E i \in 1..Len(db) :
          /\ db[i].title = "b"
          /\ Has(tasks, db[i].id)
          /\ Find(tasks, db[i].id).title = "a"

-----------------------------------------------------------------------------
(* C23: minimal diff of the batch writes.  The rows written by a move are  *)
(* exactly the tasks of the renumbered destination partition (its previous *)
(* members and the moved task) whose stored status or order differs from   *)
(* the value before the move, each written once with its new status and    *)
(* order; the rows written by a reorder are exactly the members of the     *)
(* partition whose order differs, each written once with its new order.    *)
(* No other row is written, and nothing is written when nothing differs.   *)

Written(p) == {p.writes[k].id : k \in 1..Len(p.writes)}

C23_MinimalDiff ==
    [][\A p \in pending' :
          (Issued(p) /\ p.kind \in {"moveTask", "reorderTasks"}) =>
          LET moving == p.kind = "moveTask"
              status == IF moving THEN p.arg.status
                        ELSE getEffectiveStatus(Find(tasks, p.id), wallClock)
              part == {tasks[i].id : i \in Members(tasks, status, wallClock)}
                      \cup {p.id}
              Differs(id) ==
                  \/ Find(tasks', id).order # Find(tasks, id).order
                  \/ moving /\ Find(tasks', id).status # Find(tasks, id).status
          IN /\ Written(p) = {id \in part : Differs(id)}
             /\ Len(p.writes) = Cardinality(Written(p))
             /\ \A k \in 1..Len(p.writes) :
                   LET new == Find(tasks', p.writes[k].id)
                   IN p.writes[k].data =
                         IF moving THEN [status |-> new.status, order |-> new.order]
                         ELSE [order |-> new.order]]_vars

\* a task was moved to the end of a column of two that was numbered 0, 1:
\* the moved task alone is written
C23_Witness ==
    \E p \in pending :
        /\ p.kind = "moveTask"
        /\ getEffectiveStatus(Find(p.pre, p.id), wallClock) # p.arg.status
        /\ Cardinality(Members(p.pre, p.arg.status, wallClock)) = 2
        /\ Orders(p.pre, p.arg.status, wallClock) = 0..1
        /\ p.arg.order = 2
        /\ Written(p) = {p.id}

-----------------------------------------------------------------------------
(* The insert seen from both ends.  The remote store commits the row and   *)
(* sends its change notification before the answer of the insert reaches   *)
(* the client, so a reload can deliver the new row while addTask is still  *)
(* at its await; the answer itself can be lost after the commit.           *)

\* the row of the insert as the answer carries it: .select().single()
insertedRow(p) == serverInsert(<<>>, ServerId(p.seq), p.writes[1].data)[1]

\* the remote store commits the insert of the call p
insertCommits(p) ==
    /\ p \in pending /\ p.kind = "addTask"
    /\ Storable(p.writes[1].data)
    /\ db' = serverInsert(db, ServerId(p.seq), p.writes[1].data)
    /\ notes' = notes + 1
    /\ pending' = (pending \ {p}) \cup {[p EXCEPT !.kind = "insertCommitted"]}
    /\ UNCHANGED <<tasks, isLoading, error, loads, now, wallClock, results>>

\* addTask lines 156-177, after the await, for an insert already committed
insertAnswer(p, reply) ==
    /\ p \in pending /\ p.kind = "insertCommitted"
    /\ IF reply = "ok"
       THEN tasks' = confirmCreate(tasks, p.id, dbToTask(insertedRow(p)))
       ELSE tasks' = SelectSeq(tasks, LAMBDA t : t.id # p.id)
    /\ pending' = pending \ {p}
    /\ results' = [results EXCEPT ![p.seq] =
                      Call("addTask", IF reply = "ok" THEN "resolved" ELSE "rejected",
                           reply # "ok", p.alone)]
    /\ UNCHANGED <<isLoading, error, db, loads, notes, now, wallClock>>

NextCommit ==
    \/ Next
    \/ \E p \in pending : insertCommits(p) /\ UNCHANGED UI
    \/ \E p \in pending, reply \in {"ok", "throw"} : insertAnswer(p, reply) /\ UNCHANGED UI

SpecCommit == InitTwo /\ [][NextCommit]_vars

-----------------------------------------------------------------------------
(* C24: identifier uniqueness.  In every reachable state no two entries of *)
(* the list carry the same id; in particular no task is in the list under  *)
(* its temporary id and under its permanent id.                            *)

C24_UniqueIds ==
    /\ Cardinality(IdsOf(tasks)) = Len(tasks)
    /\ \A k \in 1..Len(results) : ~(Has(tasks, TempId(k)) /\ Has(tasks, ServerId(k)))

\* a reload delivered the row of a create whose insert is not yet answered,
\* and the temporary entry of a later create stands in the list with it
C24_Witness ==
    \E p, q \in pending :
        /\ p.kind = "insertCommitted"
        /\ Has(tasks, ServerId(p.seq))
        /\ q.kind = "addTask"
        /\ Has(tasks, q.id)

-----------------------------------------------------------------------------
(* C25: a moved task lands in the target column.  After the optimistic     *)
(* step of moveTask(id, newStatus, newOrder) the effective status of the   *)
(* moved task is newStatus and getTasksByStatus(newStatus) holds it at     *)
(* index newOrder, whatever its stored status and due date were and for    *)
(* each of the four statuses.                                              *)

C25_MovedTaskLands ==
    [][\A p \in pending' :
          (Issued(p) /\ p.kind = "moveTask") =>
          LET column == getTasksByStatus(tasks', p.arg.status, wallClock)
          IN /\ getEffectiveStatus(Find(tasks', p.id), wallClock) = p.arg.status
             /\ Len(column) > p.arg.order
             /\ column[p.arg.order + 1].id = p.id]_vars

-----------------------------------------------------------------------------
(* C26: the record sent by the insert of a create carries the order that   *)
(* was computed for the temporary entry, and once the insert is confirmed  *)
(* the task has the order its temporary entry was shown with.              *)

C26_InsertCarriesOrder ==
    [][/\ \A p \in pending' :
             (Issued(p) /\ p.kind = "addTask") =>
             /\ "order" \in DOMAIN p.writes[1].data
             /\ p.writes[1].data.order = Find(tasks', p.id).order
       /\ \A p \in pending :
             (/\ Settled(p)
              /\ p.kind = "addTask"
              /\ results'[p.seq].outcome = "resolved"
              /\ Has(tasks, p.id))
             => Find(tasks', ServerId(p.seq)).order = Find(tasks, p.id).order]_vars

-----------------------------------------------------------------------------
(* C27: no remote write is keyed by a temporary id.  Every row update or   *)
(* delete sent by updateTask, deleteTask, moveTask or reorderTasks is      *)
(* addressed to an id the server assigned.                                 *)

\* the ids of the rows of the table and of the inserts confirmed or awaited
ServerAssigned == 1..(NumTasks + MaxOps)

C27_NoWriteKeyedByTempId ==
    \A p \in pending :
        p.kind \in {"updateTask", "deleteTask", "moveTask", "reorderTasks"}
        => \A k \in 1..Len(p.writes) : p.writes[k].id \in ServerAssigned

-----------------------------------------------------------------------------
(* C28: operations on an unknown id are no-ops.  updateTask, deleteTask,   *)
(* moveTask and reorderTasks called with an id that is not in the list,    *)
(* and reorderTasks called with the index the task already has in its      *)
(* partition, send no remote call, leave the list, isLoading and error as  *)
(* they were and resolve.                                                  *)

\* a call was made in this step and returned without reaching an await
ReturnedEarly == now' = now + 1 /\ \A p \in pending' : ~Issued(p)

C28_UnknownIdNoOp ==
    [][/\ \A p \in pending' :
             (Issued(p) /\ p.kind # "addTask") =>
             /\ Has(tasks, p.id)
             /\ p.kind = "reorderTasks" =>
                   FindIndex(getTasksByStatus(tasks,
                       getEffectiveStatus(Find(tasks, p.id), wallClock), wallClock),
                       p.id) # p.arg.order
       /\ ReturnedEarly =>
             /\ tasks' = tasks /\ isLoading' = isLoading /\ error' = error
             /\ pending' = pending /\ db' = db /\ loads' = loads
             /\ results'[now'].outcome = "resolved"
             /\ ~results'[now'].failed]_vars

\* reorderTasks was called on a list of two or more and returned early
C28_Witness ==
    /\ pending = {}
    /\ Len(results) = MaxOps
    /\ results[MaxOps] = Call("reorderTasks", "resolved", FALSE, TRUE)
    /\ Len(tasks) >= 2

-----------------------------------------------------------------------------
(* Authentication: src/src/context/AuthContext.tsx.  A run is an async     *)
(* function suspended at an await: initializeAuth of the mount effect, or  *)
(* the onAuthStateChange callback.                                         *)

MaxAttempts == 3     \* value initAttemptRef can reach
MaxAuthEvents == 2   \* auth events the provider sends in one run

NoMember == "null"

\* lines 560-571: the effect on [isLoading, authError, user, session]
retryEffect(a) ==
    IF ~a.isLoading /\ a.authError = NoError /\ a.user = NoUser /\ a.initAttemptRef > 1
    THEN [a EXCEPT !.isLoading = TRUE]
    ELSE a

\* the run leaves the set of suspended runs, or stays at another await
Ends(a, run) == [a EXCEPT !.runs = @ \ {run}]
Awaits(a, run, pc) == [a EXCEPT !.runs = (@ \ {run}) \cup {[run EXCEPT !.pc = pc]}]

\* lines 319-323: the finally of initializeAuth
finally(a, run) ==
    IF run.attempt = a.initAttemptRef THEN [a EXCEPT !.isLoading = FALSE] ELSE a

SessionOutcomes == {"session", "none", "expired", "error", "timeout"}

\* lines 230-282: withTimeout(getSession) settles
getSessionSettles(a, run, outcome) ==
    IF run.attempt # a.initAttemptRef
    THEN Ends(a, run)
    ELSE CASE outcome = "none" -> finally(Ends(a, run), run)
           [] outcome = "session" ->
                 Awaits([a EXCEPT !.user = "u1"], run, "fetchTeamMember")
           [] outcome = "expired" -> Awaits(a, run, "clearExpired")
           [] outcome \in {"error", "timeout"} ->
                 Awaits(a, [run EXCEPT !.error = outcome], "clearAuthState")

\* lines 244-251: after clearAuthState() of an expired session
clearExpiredSettles(a, run) ==
    finally(Ends([a EXCEPT !.user = NoUser, !.teamMember = NoMember], run), run)

\* lines 295-317: after clearAuthState() in the catch
clearAuthStateSettles(a, run) ==
    finally(Ends([a EXCEPT !.authError = IF run.error = "timeout"
                                         THEN "Connection timed out"
                                         ELSE "Failed to load your session",
                           !.user = NoUser,
                           !.teamMember = NoMember], run), run)

\* lines 256-277: fetchTeamMember and linkPendingTeamMember settle
teamMemberSettles(a, run, member) ==
    finally(Ends(IF run.attempt = a.initAttemptRef
                 THEN [a EXCEPT !.teamMember = member] ELSE a, run), run)

AuthEvents == {[event |-> "INITIAL_SESSION", session |-> TRUE],
               [event |-> "INITIAL_SESSION", session |-> FALSE],
               [event |-> "SIGNED_IN", session |-> TRUE],
               [event |-> "SIGNED_OUT", session |-> FALSE],
               [event |-> "TOKEN_REFRESHED", session |-> TRUE]}

\* lines 374-407: switch (event)
switchEvent(a, event) ==
    CASE event = "SIGNED_OUT" -> [a EXCEPT !.teamMember = NoMember, !.authError = NoError]
      [] event \in {"SIGNED_IN", "INITIAL_SESSION"} -> [a EXCEPT !.isLoading = FALSE]
      [] OTHER -> a

\* lines 338-372: the onAuthStateChange callback up to its await, or to its
\* end when there is no session
onAuthStateChange(a, e) ==
    LET counted == [a EXCEPT !.events = @ + 1]
    IN IF e.session
       THEN [counted EXCEPT
                !.authError = NoError,
                !.user = "u1",
                !.runs = @ \cup {[kind |-> "event", attempt |-> a.events + 1,
                                  pc |-> "fetchTeamMember", error |-> "none",
                                  event |-> e.event]}]
       ELSE switchEvent([counted EXCEPT !.user = NoUser, !.teamMember = NoMember],
                        e.event)

\* lines 350-372 after the await, then the switch
eventTeamMemberSettles(a, run, member) ==
    switchEvent(Ends([a EXCEPT !.teamMember = member], run), run.event)

\* lines 548-557
retryAuth(a) ==
    [a EXCEPT !.isLoading = TRUE,
              !.authError = NoError,
              !.initAttemptRef = @ + 1,
              !.user = NoUser,
              !.teamMember = NoMember]

\* the state the render after the change settles in
Rendered(a) ==
    /\ auth' = retryEffect(a)
    /\ UNCHANGED <<tasks, isLoading, error, db, loads, notes, pending, now, wallClock,
                   results, modal, filters, view, storage>>

InitRun(attempt) ==
    [kind |-> "init", attempt |-> attempt, pc |-> "getSession", error |-> "none",
     event |-> "none"]

\* AuthProvider after construction: the mount effect has called
\* initializeAuth, which is at its first await
InitAuth ==
    /\ tasks = <<>>
    /\ isLoading = TRUE
    /\ error = NoError
    /\ db = <<>>
    /\ loads = EmptyBag
    /\ notes = 0
    /\ pending = {}
    /\ now = 0
    /\ wallClock = Today
    /\ results = <<>>
    /\ modal = ModalClosed
    /\ filters = NoFilters
    /\ view = NoView
    /\ auth = [isLoading |-> TRUE, user |-> NoUser, teamMember |-> NoMember,
               authError |-> NoError, initAttemptRef |-> 1, runs |-> {InitRun(1)},
               events |-> 0]
    /\ storage = Stored(NoItem)

\* getSession answers
sessionAnswer ==
    \E run \in auth.runs, outcome \in SessionOutcomes \ {"timeout"} :
        /\ run.kind = "init" /\ run.pc = "getSession"
        /\ Rendered(getSessionSettles(auth, run, outcome))

\* the timer of withTimeout fires first
sessionTimeout ==
    \E run \in auth.runs :
        /\ run.kind = "init" /\ run.pc = "getSession"
        /\ Rendered(getSessionSettles(auth, run, "timeout"))

clearExpiredAnswer ==
    \E run \in auth.runs :
        /\ run.kind = "init" /\ run.pc = "clearExpired"
        /\ Rendered(clearExpiredSettles(auth, run))

clearAuthStateAnswer ==
    \E run \in auth.runs :
        /\ run.kind = "init" /\ run.pc = "clearAuthState"
        /\ Rendered(clearAuthStateSettles(auth, run))

teamMemberAnswer ==
    \E run \in auth.runs, member \in {"m1", NoMember} :
        /\ run.pc = "fetchTeamMember"
        /\ Rendered(IF run.kind = "init"
                    THEN teamMemberSettles(auth, run, member)
                    ELSE eventTeamMemberSettles(auth, run, member))

authEvent ==
    \E e \in AuthEvents :
        /\ auth.events < MaxAuthEvents
        /\ Rendered(onAuthStateChange(auth, e))

\* App.tsx lines 199-222: the Retry button of the loading screen, shown
\* with an auth error or once loading has lasted LOADING_TIMEOUT_MS
retry ==
    /\ auth.isLoading \/ auth.authError # NoError
    /\ auth.initAttemptRef < MaxAttempts
    /\ Rendered(retryAuth(auth))

NextAuth ==
    \/ sessionAnswer
    \/ sessionTimeout
    \/ clearExpiredAnswer
    \/ clearAuthStateAnswer
    \/ teamMemberAnswer
    \/ authEvent
    \/ retry

SpecAuth == InitAuth /\ [][NextAuth]_vars

\* timers fire and every remote call other than getSession is answered; the
\* provider owes no auth event and the user no click
SpecAuthFair ==
    /\ SpecAuth
    /\ WF_vars(sessionTimeout)
    /\ WF_vars(clearExpiredAnswer)
    /\ WF_vars(clearAuthStateAnswer)
    /\ WF_vars(teamMemberAnswer)

-----------------------------------------------------------------------------
(* C29: authentication loading ends.  Whenever isLoading is true, after    *)
(* the mount or after retryAuth, it eventually becomes false, even when    *)
(* getSession never answers and the provider sends no further auth event.  *)

C29_AuthLoadingEnds == auth.isLoading ~> ~auth.isLoading

-----------------------------------------------------------------------------
(* The persisted filters: src/src/context/FilterContext.tsx on             *)
(* src/src/hooks/useLocalStorage.ts and the storage helper.                *)

MaxFilterOps == 3      \* filter operations in one run
MaxStorageEvents == 1  \* writes of the item by other tabs in one run

\* storage.get(key, defaultValue)
storageGet(item, defaultValue) ==
    IF item.kind = "json" THEN item.value ELSE defaultValue

\* the item after storage.get: a corrupted item is removed
itemAfterGet(item) == IF item.kind = "corrupted" THEN NoItem ELSE item

\* storage.set(key, value): the item after the call
storageSet(item, value, success) == IF success THEN stringify(value) ELSE item

\* lines 70-84 with the new value kept in state when the write failed
setValueKeepsNew(prev, valueToStore, success) == valueToStore

\* useLocalStorage lines 70-84: the updater handed to setStoredValue
setValue(prev, valueToStore, success) == IF ~success THEN prev ELSE valueToStore

\* prev.includes(x) ? prev.filter(y => y !== x) : [...prev, x]
toggle(list, x) ==
    IF Contains(list, x) THEN SelectSeq(list, LAMBDA y : y # x) ELSE Append(list, x)

\* FilterContext lines 30-54: the value each operation computes from prev
filterValue(prev, op, arg) ==
    CASE op = "setAssignee" -> [prev EXCEPT !.assigneeId = arg]
      [] op = "toggleCategory" -> [prev EXCEPT !.categories = toggle(@, arg)]
      [] op = "toggleStatus" -> [prev EXCEPT !.statuses = toggle(@, arg)]
      [] op = "setSearchQuery" -> [prev EXCEPT !.searchQuery = arg]
      [] op = "clearFilters" -> NoFilters

FilterOps ==
    {[op |-> "setAssignee", arg |-> a] : a \in {NoAssignee, "u1"}}
    \cup {[op |-> "toggleCategory", arg |-> "sales"]}
    \cup {[op |-> "toggleStatus", arg |-> st] : st \in {"planning", "past-due"}}
    \cup {[op |-> "setSearchQuery", arg |-> <<"a">>]}
    \cup {[op |-> "clearFilters", arg |-> "none"]}

\* a filter operation; success: whether localStorage.setItem went through
filterOperation(o, success) ==
    /\ storage.writes < MaxFilterOps
    /\ LET valueToStore == filterValue(filters, o.op, o.arg)
       IN /\ filters' = setValue(filters, valueToStore, success)
          /\ storage' = [storage EXCEPT
                            !.item = storageSet(@, valueToStore, success),
                            !.writes = @ + 1,
                            !.last = [op |-> o.op, arg |-> o.arg, success |-> success]]
    /\ UNCHANGED <<tasks, isLoading, error, db, loads, notes, pending, now, wallClock,
                   results, modal, view, auth>>

ForeignItems ==
    {NoItem, Corrupted, stringify(NoFilters),
     stringify([NoFilters EXCEPT !.categories = <<"testing">>])}

\* another tab sets or removes the item: a storage event is on its way
otherTabWrites(item) ==
    /\ Len(storage.events) < MaxStorageEvents
    /\ ~storage.foreign
    /\ storage' = [storage EXCEPT !.item = item,
                                  !.events = Append(@, item),
                                  !.foreign = TRUE]
    /\ UNCHANGED <<tasks, isLoading, error, db, loads, notes, pending, now, wallClock,
                   results, modal, filters, view, auth>>

\* useLocalStorage lines 38-61: handleStorageChange for the key
handleStorageChange ==
    /\ storage.events # <<>>
    /\ LET newValue == Head(storage.events)
       IN filters' = CASE newValue.kind = "null" -> NoFilters
                       [] newValue.kind = "corrupted" -> filters
                       [] newValue.kind = "json" -> newValue.value
    /\ storage' = [storage EXCEPT !.events = Tail(@)]
    /\ UNCHANGED <<tasks, isLoading, error, db, loads, notes, pending, now, wallClock,
                   results, modal, view, auth>>

InitItems == {NoItem, Corrupted, stringify([NoFilters EXCEPT !.assigneeId = "u1"])}

\* FilterProvider after construction: the state is what storage.get read
InitStorage ==
    /\ tasks = <<>>
    /\ isLoading = FALSE
    /\ error = NoError
    /\ db = <<>>
    /\ loads = EmptyBag
    /\ notes = 0
    /\ pending = {}
    /\ now = 0
    /\ wallClock = Today
    /\ results = <<>>
    /\ modal = ModalClosed
    /\ \E item \in InitItems :
          /\ filters = storageGet(item, NoFilters)
          /\ storage = Stored(itemAfterGet(item))
    /\ view = NoView
    /\ auth = SignedIn

NextStorage ==
    \/ \E o \in FilterOps, success \in BOOLEAN : filterOperation(o, success)
    \/ \E item \in ForeignItems : otherTabWrites(item)
    \/ handleStorageChange

SpecStorage == InitStorage /\ [][NextStorage]_vars

-----------------------------------------------------------------------------
(* C30: the filter state stays consistent with its persisted copy.  After  *)
(* a filter operation whose localStorage write succeeded, the state and    *)
(* the stored item are both the new value; when the write failed, the      *)
(* state and the item are what they were.  So, as long as no other tab has *)
(* written the item, the state is what reading the item gives.             *)

\* new is the value the operation computes from prev
Expected(prev, op, arg, new) ==
    LET Set(list) == {list[i] : i \in 1..Len(list)}
        Toggled(old, x) == IF x \in old THEN old \ {x} ELSE old \cup {x}
        Same(fields) == \A f \in fields : new[f] = prev[f]
    IN CASE op = "setAssignee" ->
               new.assigneeId = arg /\ Same({"categories", "statuses", "searchQuery"})
         [] op = "toggleCategory" ->
               /\ Set(new.categories) = Toggled(Set(prev.categories), arg)
               /\ Len(new.categories) = Cardinality(Set(new.categories))
               /\ Same({"assigneeId", "statuses", "searchQuery"})
         [] op = "toggleStatus" ->
               /\ Set(new.statuses) = Toggled(Set(prev.statuses), arg)
               /\ Len(new.statuses) = Cardinality(Set(new.statuses))
               /\ Same({"assigneeId", "categories", "searchQuery"})
         [] op = "setSearchQuery" ->
               new.searchQuery = arg /\ Same({"assigneeId", "categories", "statuses"})
         [] op = "clearFilters" -> new = NoFilters

C30_FiltersPersisted ==
    [][/\ storage'.writes = storage.writes + 1 =>
             LET last == storage'.last
             IN IF last.success
                THEN /\ Expected(filters, last.op, last.arg, filters')
                     /\ storage'.item = stringify(filters')
                ELSE /\ filters' = filters
                     /\ storage'.item = storage.item
       /\ ~storage'.foreign => filters' = storageGet(storage'.item, NoFilters)]_vars

\* a write succeeded and the next one failed: the state and the item both
\* hold the value of the first
C30_Witness ==
    /\ storage.writes >= 2
    /\ ~storage.last.success
    /\ ~storage.foreign
    /\ filters # NoFilters
    /\ filters.categories # <<>>
    /\ storage.item = stringify(filters)

====
